---- MODULE Spec2Model ----
(***************************************************************************)
(* altcoin_trend_rank.py as a state machine.                               *)
(*                                                                         *)
(* The script runs top to bottom: it fetches one historical series per     *)
(* coin of the ranking snapshot (with retries), creates the summary table  *)
(* with one row per fetched coin, fills the rows coin by coin from the     *)
(* series (compute_tick_values, then four lookback windows) and finally    *)
(* calls create_cmc_coins_sorted_by_price_change_truncated for the         *)
(* reports.                                                                *)
(*                                                                         *)
(* Numbers.  Python floats are modelled as exact rationals <<n, d>> with   *)
(* d > 0 in lowest terms; np.NaN is <<0, 0>>.  Timestamps are the          *)
(* endpoint's integer milliseconds.  Python sequences are 0-based: At(s,i) *)
(* reads s[i] and HasIndex(s,i) tells whether the label i exists (a        *)
(* pandas Series with a RangeIndex raises KeyError for any other label,    *)
(* negative ones included).                                                *)
(***************************************************************************)
EXTENDS Integers, Sequences, FiniteSets, TLC

(***************************************************************************)
(* Bounds of the model.                                                    *)
(***************************************************************************)
MaxLen == 3          \* longest series fetched in the pipeline specification
MaxPrice == 2        \* prices are drawn from 0..MaxPrice
MaxCap == 2          \* number_of_coins is drawn from 0..MaxCap
MaxTickLen == 4      \* longest series of the single-coin specifications

(***************************************************************************)
(* Rational arithmetic.                                                    *)
(***************************************************************************)
Abs(n) == IF n < 0 THEN -n ELSE n

RECURSIVE Gcd(_, _)
Gcd(a, b) == IF b = 0 THEN a ELSE Gcd(b, a % b)

NaN == <<0, 0>>
IsNaN(x) == x[2] = 0

\* n / d as a float: ZeroDivisionError is the caller's business (d # 0 here)
Frac(n, d) ==
    LET g == Gcd(Abs(n), Abs(d))
        s == IF d < 0 THEN -1 ELSE 1
    IN  <<(s * n) \div g, (s * d) \div g>>

Num(n) == <<n, 1>>

\* a / b on floats; a NaN operand gives NaN
FDiv(a, b) == IF IsNaN(a) \/ IsNaN(b) THEN NaN ELSE Frac(a[1] * b[2], a[2] * b[1])
FSub(a, b) == IF IsNaN(a) \/ IsNaN(b) THEN NaN ELSE Frac(a[1] * b[2] - b[1] * a[2], a[2] * b[2])
FMul(a, b) == IF IsNaN(a) \/ IsNaN(b) THEN NaN ELSE Frac(a[1] * b[1], a[2] * b[2])

\* a < b on floats: every comparison with NaN is False
FLt(a, b) == ~IsNaN(a) /\ ~IsNaN(b) /\ a[1] * b[2] < b[1] * a[2]

\* a >= b on floats
FGe(a, b) == ~IsNaN(a) /\ ~IsNaN(b) /\ a[1] * b[2] >= b[1] * a[2]

\* Python 3 round(): nearest integer, ties to the even one
Round(x) ==
    LET q == x[1] \div x[2]
        r == x[1] % x[2]
    IN  IF 2 * r < x[2] THEN q
        ELSE IF 2 * r > x[2] THEN q + 1
        ELSE IF q % 2 = 0 THEN q ELSE q + 1

(***************************************************************************)
(* 0-based sequences.                                                      *)
(***************************************************************************)
HasIndex(s, i) == i \in 0 .. (Len(s) - 1)
At(s, i) == s[i + 1]

RECURSIVE Reverse(_)
Reverse(s) == IF s = << >> THEN << >> ELSE Append(Reverse(Tail(s)), Head(s))

Range(s) == {s[i] : i \in 1 .. Len(s)}

(***************************************************************************)
(* The ranking snapshot (cmc_ranking_data): ids in rank order, and the     *)
(* fields the summary copies.  The snapshot of the pipeline lists three    *)
(* coins; the snapshot of the run that the report specification follows    *)
(* lists eight, the same three first.                                      *)
(***************************************************************************)
cmc_ranking_coin_id_list == <<"bitcoin", "ethereum", "ripple">>

LongRankingCoinIdList ==
    <<"bitcoin", "ethereum", "ripple", "litecoin", "dash", "monero", "nem", "neo">>

cmc_ranking_data_indexed ==
    [c \in Range(LongRankingCoinIdList) |->
        CASE c = "bitcoin"  -> [name |-> "Bitcoin",  symbol |-> "BTC", volume_24h |-> "900.5", market_cap |-> "9000"]
          [] c = "ethereum" -> [name |-> "Ethereum", symbol |-> "ETH", volume_24h |-> "500.0", market_cap |-> "5000"]
          [] c = "ripple"   -> [name |-> "Ripple",   symbol |-> "XRP", volume_24h |-> "300",   market_cap |-> "3000"]
          [] c = "litecoin" -> [name |-> "Litecoin", symbol |-> "LTC", volume_24h |-> "250.0", market_cap |-> "2500"]
          [] c = "dash"     -> [name |-> "Dash",     symbol |-> "DASH", volume_24h |-> "200.0", market_cap |-> "2000"]
          [] c = "monero"   -> [name |-> "Monero",   symbol |-> "XMR", volume_24h |-> "150.0", market_cap |-> "1500"]
          [] c = "nem"      -> [name |-> "NEM",      symbol |-> "XEM", volume_24h |-> "100.0", market_cap |-> "1000"]
          [] c = "neo"      -> [name |-> "NEO",      symbol |-> "NEO", volume_24h |-> "50.0",  market_cap |-> "500"]]

Symbols == {cmc_ranking_data_indexed[c].symbol : c \in Range(cmc_ranking_coin_id_list)}

(***************************************************************************)
(* Series the endpoint may return.  A payload has the columns price_btc    *)
(* and price_usd, each a list of [timestamp_ms, price] pairs over the same *)
(* timestamps, ascending without duplicates.                               *)
(***************************************************************************)
T0 == 60 * 1000                  \* timestamp of the first sample (ms)
MaxSpanMs == 1500 * 1000 * 1000  \* longest span of a series (ms), about 17 days

RECURSIVE Stamps(_, _)
\* the timestamps that start at t and advance by the gaps (ms)
Stamps(t, gaps) == IF gaps = << >> THEN <<t>> ELSE <<t>> \o Stamps(t + Head(gaps), Tail(gaps))

RECURSIVE SumSeq(_)
SumSeq(s) == IF s = << >> THEN 0 ELSE Head(s) + SumSeq(Tail(s))

\* price of sample i (0-based) of the shape (a, b): level a, step b, wrapping at MaxPrice
ShapePrice(a, b, i) == (a + b * i) % (MaxPrice + 1)

MkSeries(n, gaps, a, b, u) ==
    LET ts == IF n = 0 THEN << >> ELSE Stamps(T0, gaps)
    IN  [price_btc |-> [i \in 1 .. n |-> <<ts[i], ShapePrice(a, b, i - 1)>>],
         price_usd |-> [i \in 1 .. n |-> <<ts[i], u>>]]

\* sequences of k gaps, each from G, within the span the model can hold
\* (the span is summed in seconds)
GapSeqs(k, G) == {g \in [1 .. k -> G] : SumSeq([i \in 1 .. k |-> g[i] \div 1000]) <= MaxSpanMs \div 1000}
UniformGapSeqs(k, G) == {g \in GapSeqs(k, G) : \A i \in 1 .. k : g[i] = g[1]}

HourMs == 60 * 60 * 1000
FiveDaysMs == 5 * 24 * 60 * 60 * 1000
WeekMs == 7 * 24 * 60 * 60 * 1000
QuarterMs == 15 * 60 * 1000
TwoHoursMs == 2 * 60 * 60 * 1000

\* the series of n samples over the gap sequences GS[n - 1], shapes (a, b), usd level u
SeriesOver(lens, GS, as, bs, us) ==
    UNION {{MkSeries(n, g, a, b, u) : g \in GS[IF n = 0 THEN 0 ELSE n - 1], a \in as, b \in bs, u \in us} :
             n \in lens}

\* a series of 50 samples a quarter of an hour apart (twelve and a quarter
\* hours of data), with prices of the shape (a, 1)
FiftyGaps == [k \in {49} |-> UniformGapSeqs(49, {QuarterMs})]
FiftySeries == SeriesOver({50}, FiftyGaps, 0 .. MaxPrice, {1}, {1})

PipelineGaps == [k \in 0 .. MaxLen |-> UniformGapSeqs(k, {HourMs, FiveDaysMs})]

\* series of the pipeline specification: evenly spaced; bitcoin's price in
\* bitcoin is 1, the other coins' prices rise sample by sample
PipelineSeries(c) ==
    IF c = "bitcoin"
    THEN SeriesOver(0 .. MaxLen, PipelineGaps, {1}, {0}, {1})
    ELSE SeriesOver(0 .. MaxLen, PipelineGaps, 0 .. MaxPrice, {1}, {1}) \cup FiftySeries

\* series of the single-coin specification: any spacing, flat or rising
\* prices, a usd price that may be 0
CoinGaps == [k \in 0 .. MaxTickLen |-> GapSeqs(k, {QuarterMs, HourMs, TwoHoursMs, FiveDaysMs, WeekMs})]
CoinSeries == SeriesOver(0 .. MaxTickLen, CoinGaps, 0 .. MaxPrice, {0, 1}, {0, 1}) \cup FiftySeries
BitcoinSeries == MkSeries(3, <<HourMs, HourMs>>, 1, 0, 1)

\* series of the report specification: three samples an hour apart, with the
\* prices 1, 1, 1 or 1, 2, 0 or 0, 1, 2 (hour change 1, 2 or unavailable)
ReportGaps == [k \in {2} |-> {<<HourMs, HourMs>>}]
ReportSeries == SeriesOver({3}, ReportGaps, {1}, {0, 1}, {1}) \cup SeriesOver({3}, ReportGaps, {0}, {1}, {1})

(***************************************************************************)
(* compute_tick_values.  The module-level names it assigns are kept in     *)
(* module_globals, a function from the names assigned so far to their      *)
(* values.                                                                 *)
(***************************************************************************)
\* a variant that keeps the value a name already has
AssignOnce(g, name, value) == [n \in DOMAIN g \cup {name} |-> IF n = name /\ n \notin DOMAIN g THEN value ELSE g[n]]

Assign(g, name, value) == [n \in DOMAIN g \cup {name} |-> IF n = name THEN value ELSE g[n]]

\* a timestamp in seconds: ts / 1000
Seconds(ms) == Frac(ms, 1000)

\* x / n where n is the numpy integer returned by count(): 0.0 / 0 is nan
NpDiv(x, n) == IF n = 0 THEN NaN ELSE FDiv(x, Num(n))

\* a variant that truncates instead of rounding: int(duration / delta_tick)
SampleCountTruncated(duration, delta_tick) ==
    LET x == FDiv(Num(duration), delta_tick) IN x[1] \div x[2]

\* int(round(duration / delta_tick))
SampleCount(duration, delta_tick) == Round(FDiv(Num(duration), delta_tick))

\* a variant that averages over all the samples, the last one included
DeltaTickAllSamples(col, n) ==
    NpDiv(FSub(Seconds(At(col, n - 1)[1]), Seconds(At(col, 0)[1])), n - 1)

\* a variant that measures up to the last sample
DeltaTickLastSample(col, n) ==
    NpDiv(FSub(Seconds(At(col, n - 1)[1]), Seconds(At(col, 0)[1])), n - 2)

\* delta_tick: the time from sample 0 to sample n-2, in seconds, over n-2
DeltaTick(col, n) ==
    NpDiv(FSub(Seconds(At(col, n - 2)[1]), Seconds(At(col, 0)[1])), n - 2)

\* the namespace after compute_tick_values(this_coin_id) and the exception it raised ("" if none)
ComputeTickValues(chart, g) ==
    LET col == chart.price_btc
        n   == Len(col)
        g1  == Assign(g, "total_sample_count", n)
    IN  IF ~HasIndex(col, n - 2) \/ ~HasIndex(col, 0)
        THEN [raised |-> "KeyError", globals |-> g1]
        ELSE
          LET dt == DeltaTick(col, n)
              g2 == Assign(g1, "delta_tick", dt)
              g3 == Assign(g2, "range_tick", FSub(Seconds(At(col, n - 1)[1]), Seconds(At(col, 0)[1])))
          IN  IF IsNaN(dt) \/ dt[1] = 0
              THEN [raised |-> "ValueError", globals |-> g3]
              ELSE
                LET g4 == Assign(g3, "hour_sample_count", SampleCount(60 * 60, dt))
                    g5 == Assign(g4, "day_sample_count", SampleCount(60 * 60 * 24, dt))
                    g6 == Assign(g5, "day_7_sample_count", SampleCount(60 * 60 * 24 * 7, dt))
                    g7 == Assign(g6, "day_approx30_sample_count", SampleCount(60 * 60 * 24 * 30, dt) - 5)
                IN  [raised |-> "", globals |-> g7]

(***************************************************************************)
(* The summary table.  A row is a function from the column names of        *)
(* cmc_summary_data_dict to values.                                        *)
(***************************************************************************)
Windows == <<"hour", "day", "days_7", "days_approx30">>

\* a variant in which the day block reads the hour count
WindowSampleCountDayAsHour(w) ==
    CASE w = "hour" -> "hour_sample_count"
      [] w = "day" -> "hour_sample_count"
      [] w = "days_7" -> "day_7_sample_count"
      [] w = "days_approx30" -> "day_approx30_sample_count"

\* the module-level sample count each window block reads
WindowSampleCount(w) ==
    CASE w = "hour" -> "hour_sample_count"
      [] w = "day" -> "day_sample_count"
      [] w = "days_7" -> "day_7_sample_count"
      [] w = "days_approx30" -> "day_approx30_sample_count"

WindowColumns(w) == {w \o "_ago_price_btc", w \o "_change_btc", w \o "_ago_price_usd", w \o "_change_usd"}

TextColumns == {"name", "symbol", "24h_volume_usd", "market_cap_usd"}
NumberColumns == {"price_btc", "price_usd"} \cup UNION {WindowColumns(w) : w \in Range(Windows)}

\* cmc_summary_data_dict: '' and 0 everywhere (the 0 of a text column is written "0")
cmc_summary_data_dict ==
    [col \in TextColumns \cup NumberColumns |->
        IF col \in NumberColumns THEN Num(0)
        ELSE IF col \in {"name", "symbol"} THEN "" ELSE "0"]

Set(row, col, value) == [row EXCEPT ![col] = value]

\* a variant whose divisions do not raise: a ratio over 0 is stored as nan
WindowTryNoFault(row, chart, w, n, offset) ==
    LET btc == chart.price_btc
        usd == chart.price_usd
        i   == n - 2 - offset
        Ratio(col) == IF At(col, i)[2] = 0 THEN NaN ELSE Frac(At(col, n - 2)[2], At(col, i)[2])
    IN  IF ~HasIndex(btc, i) THEN [raised |-> "KeyError", row |-> row]
        ELSE
          LET r1 == Set(row, w \o "_ago_price_btc", Num(At(btc, i)[2]))
              r2 == Set(r1, w \o "_change_btc", Ratio(btc))
          IN  IF ~HasIndex(usd, i) THEN [raised |-> "KeyError", row |-> r2]
              ELSE
                LET r3 == Set(r2, w \o "_ago_price_usd", Num(At(usd, i)[2]))
                IN  [raised |-> "", row |-> Set(r3, w \o "_change_usd", Ratio(usd))]

\* the try body of one window block: the row as far as it was written, and
\* the exception that stopped it ("" if none)
WindowTry(row, chart, w, n, offset) ==
    LET btc == chart.price_btc
        usd == chart.price_usd
        i   == n - 2 - offset
    IN  IF ~HasIndex(btc, i) THEN [raised |-> "KeyError", row |-> row]
        ELSE
          LET r1 == Set(row, w \o "_ago_price_btc", Num(At(btc, i)[2]))
          IN  IF At(btc, i)[2] = 0 THEN [raised |-> "ZeroDivisionError", row |-> r1]
              ELSE
                LET r2 == Set(r1, w \o "_change_btc", Frac(At(btc, n - 2)[2], At(btc, i)[2]))
                IN  IF ~HasIndex(usd, i) THEN [raised |-> "KeyError", row |-> r2]
                    ELSE
                      LET r3 == Set(r2, w \o "_ago_price_usd", Num(At(usd, i)[2]))
                      IN  IF At(usd, i)[2] = 0 THEN [raised |-> "ZeroDivisionError", row |-> r3]
                          ELSE [raised |-> "",
                                row |-> Set(r3, w \o "_change_usd", Frac(At(usd, n - 2)[2], At(usd, i)[2]))]

\* a variant whose except branch is `pass`
WindowExceptPass(row, w) == row

\* a variant whose except branch resets the two change columns only
WindowExceptChangesOnly(row, w) ==
    [col \in DOMAIN row |-> IF col \in {w \o "_change_btc", w \o "_change_usd"} THEN NaN ELSE row[col]]

\* the except branch of one window block
WindowExcept(row, w) ==
    [col \in DOMAIN row |-> IF col \in WindowColumns(w) THEN NaN ELSE row[col]]

\* one window block: try, and on any exception the except branch
WindowBlock(row, chart, w, g) ==
    LET t == WindowTry(row, chart, w, g["total_sample_count"], g[WindowSampleCount(w)])
    IN  IF t.raised = "" THEN t.row ELSE WindowExcept(t.row, w)

\* a variant with a single try around the four blocks: the first exception
\* marks that window and the ones after it unavailable
PopulateRowSingleTry(row, this_coin_id, chart, g) ==
    LET n  == g["total_sample_count"]
        r1 == Set(row, "name", cmc_ranking_data_indexed[this_coin_id].name)
        r2 == Set(r1, "symbol", cmc_ranking_data_indexed[this_coin_id].symbol)
        r3 == Set(r2, "price_btc", Num(At(chart.price_btc, n - 2)[2]))
        r4 == Set(r3, "price_usd", Num(At(chart.price_usd, n - 2)[2]))
        r5 == Set(r4, "24h_volume_usd", cmc_ranking_data_indexed[this_coin_id].volume_24h)
        r6 == Set(r5, "market_cap_usd", cmc_ranking_data_indexed[this_coin_id].market_cap)
        Ok(r, w) == WindowTry(r, chart, w, n, g[WindowSampleCount(w)]).raised = ""
        Step(r, w, ok) == IF ok /\ Ok(r, w) THEN WindowBlock(r, chart, w, g) ELSE WindowExcept(r, w)
        ok1 == Ok(r6, "hour")
        r7 == Step(r6, "hour", TRUE)
        ok2 == ok1 /\ Ok(r7, "day")
        r8 == Step(r7, "day", ok1)
        ok3 == ok2 /\ Ok(r8, "days_7")
        r9 == Step(r8, "days_7", ok2)
    IN  Step(r9, "days_approx30", ok3)

\* a variant that takes the current prices from the last sample
PopulateRowLastSample(row, this_coin_id, chart, g) ==
    LET n  == g["total_sample_count"]
        r1 == Set(row, "name", cmc_ranking_data_indexed[this_coin_id].name)
        r2 == Set(r1, "symbol", cmc_ranking_data_indexed[this_coin_id].symbol)
        r3 == Set(r2, "price_btc", Num(At(chart.price_btc, n - 1)[2]))
        r4 == Set(r3, "price_usd", Num(At(chart.price_usd, n - 1)[2]))
        r5 == Set(r4, "24h_volume_usd", cmc_ranking_data_indexed[this_coin_id].volume_24h)
        r6 == Set(r5, "market_cap_usd", cmc_ranking_data_indexed[this_coin_id].market_cap)
        r7 == WindowBlock(r6, chart, "hour", g)
        r8 == WindowBlock(r7, chart, "day", g)
        r9 == WindowBlock(r8, chart, "days_7", g)
    IN  WindowBlock(r9, chart, "days_approx30", g)

\* the row of this_coin_id after one iteration of the populate loop, the
\* namespace g being the one compute_tick_values left
PopulateRow(row, this_coin_id, chart, g) ==
    LET n  == g["total_sample_count"]
        r1 == Set(row, "name", cmc_ranking_data_indexed[this_coin_id].name)
        r2 == Set(r1, "symbol", cmc_ranking_data_indexed[this_coin_id].symbol)
        r3 == Set(r2, "price_btc", Num(At(chart.price_btc, n - 2)[2]))
        r4 == Set(r3, "price_usd", Num(At(chart.price_usd, n - 2)[2]))
        r5 == Set(r4, "24h_volume_usd", cmc_ranking_data_indexed[this_coin_id].volume_24h)
        r6 == Set(r5, "market_cap_usd", cmc_ranking_data_indexed[this_coin_id].market_cap)
        r7 == WindowBlock(r6, chart, "hour", g)
        r8 == WindowBlock(r7, chart, "day", g)
        r9 == WindowBlock(r8, chart, "days_7", g)
    IN  WindowBlock(r9, chart, "days_approx30", g)

(***************************************************************************)
(* sorted(d, key=d.__getitem__, reverse=True) as CPython computes it for a *)
(* list shorter than 64: the list is reversed, sorted in place with `<`    *)
(* only (the leading run is found by count_run, the rest is inserted by    *)
(* binarysort), and reversed again.  Items are records [id, key].          *)
(***************************************************************************)
ISLT(x, y) == FLt(x.key, y.key)

RECURSIVE RunLength(_, _, _)
\* count_run: the length of the run that starts the list, n items of it being known
RunLength(s, n, descending) ==
    IF n >= Len(s) THEN n
    ELSE IF ISLT(s[n + 1], s[n]) = descending THEN RunLength(s, n + 1, descending)
    ELSE n

RECURSIVE BinarySearch(_, _, _, _)
\* binarysort's search for the place of pivot in the sorted s[l+1 .. r]
BinarySearch(s, pivot, l, r) ==
    IF l >= r THEN l
    ELSE LET p == l + ((r - l) \div 2)
         IN  IF ISLT(pivot, s[p + 1]) THEN BinarySearch(s, pivot, l, p)
             ELSE BinarySearch(s, pivot, p + 1, r)

RECURSIVE BinarySort(_, _)
\* binarysort: s[1 .. start] is sorted, the rest is inserted item by item
BinarySort(s, start) ==
    IF start >= Len(s) THEN s
    ELSE LET pivot == s[start + 1]
             l == BinarySearch(s, pivot, 0, start)
         IN  BinarySort(SubSeq(s, 1, l) \o <<pivot>> \o SubSeq(s, l + 1, start) \o SubSeq(s, start + 2, Len(s)),
                        start + 1)

ListSort(s) ==
    IF Len(s) < 2 THEN s
    ELSE LET descending == ISLT(s[2], s[1])
             n == RunLength(s, 2, descending)
             run == IF descending THEN Reverse(SubSeq(s, 1, n)) \o SubSeq(s, n + 1, Len(s)) ELSE s
         IN  BinarySort(run, n)

SortedReverse(s) == Reverse(ListSort(Reverse(s)))

(***************************************************************************)
(* create_cmc_coins_sorted_by_price_change_truncated                       *)
(***************************************************************************)
ChangeVariables == {"hour_change_btc", "day_change_btc", "days_7_change_btc", "days_approx30_change_btc"}

RECURSIVE Remove(_, _)
\* list.remove(x): the list without the first x (the callers have x in the list)
Remove(s, x) == IF s = << >> THEN << >> ELSE IF Head(s) = x THEN Tail(s) ELSE <<Head(s)>> \o Remove(Tail(s), x)

RECURSIVE Keep(_, _)
\* the items of s that are in the set S, in the order of s
Keep(s, S) == IF s = << >> THEN << >> ELSE IF Head(s) \in S THEN <<Head(s)>> \o Keep(Tail(s), S) ELSE Keep(Tail(s), S)

\* a variant that leaves bitcoin in coin_id_list
CoinsWithChangeRatiosKeepBitcoin(table, index, change_variable, coin_symbol_filter_list) ==
    LET coin_id_list == index
        kept == Keep(coin_id_list, {c \in Range(coin_id_list) : table[c]["symbol"] \in coin_symbol_filter_list})
    IN  [i \in 1 .. Len(kept) |-> [id |-> kept[i], key |-> table[kept[i]][change_variable]]]

\* coins_with_change_ratios, as the list of its items in insertion order
CoinsWithChangeRatios(table, index, change_variable, coin_symbol_filter_list) ==
    LET coin_id_list == Remove(index, "bitcoin")
        kept == Keep(coin_id_list, {c \in Range(coin_id_list) : table[c]["symbol"] \in coin_symbol_filter_list})
    IN  [i \in 1 .. Len(kept) |-> [id |-> kept[i], key |-> table[kept[i]][change_variable]]]

Min(a, b) == IF a < b THEN a ELSE b

\* a variant that returns the whole sorted list
CreateSortedUntruncated(table, index, change_variable, number_of_coins, coin_symbol_filter_list) ==
    LET items == SortedReverse(CoinsWithChangeRatios(table, index, change_variable, coin_symbol_filter_list))
    IN  [i \in 1 .. Len(items) |-> items[i].id]

CreateSortedTruncated(table, index, change_variable, number_of_coins, coin_symbol_filter_list) ==
    LET items == SortedReverse(CoinsWithChangeRatios(table, index, change_variable, coin_symbol_filter_list))
        cmc_coins_sorted_by_price_change == [i \in 1 .. Len(items) |-> items[i].id]
        max_number_of_coins == Min(Len(cmc_coins_sorted_by_price_change), number_of_coins)
    IN  SubSeq(cmc_coins_sorted_by_price_change, 1, max_number_of_coins)

(***************************************************************************)
(* print_cmc_coins_sorted_by_price_change: the values of one output line   *)
(* (the volume column, an integer cut out of the snapshot's text, is left  *)
(* out of the line).                                                       *)
(***************************************************************************)
\* a variant that prints the ratio as the percentage: change * 100
ThisPercentageOfRatio(change) == FMul(change, Num(100))

\* this_percentage = (change - 1) * 100
ThisPercentage(change) == FMul(FSub(change, Num(1)), Num(100))

PrintedLine(table, change_variable, this_coin_id) ==
    [symbol |-> table[this_coin_id]["symbol"],
     this_percentage |-> ThisPercentage(table[this_coin_id][change_variable]),
     name |-> table[this_coin_id]["name"],
     price_btc |-> table[this_coin_id]["price_btc"],
     price_usd |-> table[this_coin_id]["price_usd"],
     hour_change_btc |-> table[this_coin_id]["hour_change_btc"],
     day_change_btc |-> table[this_coin_id]["day_change_btc"],
     days_7_change_btc |-> table[this_coin_id]["days_7_change_btc"],
     days_approx30_change_btc |-> table[this_coin_id]["days_approx30_change_btc"]]

PrintedLines(table, change_variable, coins) ==
    [i \in 1 .. Len(coins) |-> PrintedLine(table, change_variable, coins[i])]

VARIABLES
    pc,                      \* where the script is: "fetch", "attempt", "table", "build", "report", "print", "printed", "aborted"
    run_error,               \* the exception that ended the script, "" if none
    coin_count,              \* coins the fetch loop has started
    tries_left,              \* retry_call: _tries of the fetch in progress
    retry_delay,             \* retry_call: _delay of the fetch in progress
    slept,                   \* retry_call: the waits of the fetch in progress
    cmc_chart_data,          \* dict coin id -> fetched series
    cmc_summary_data_df_indexed_id_list,   \* the ids of the summary rows, in row order
    cmc_summary_data_df_indexed,           \* coin id -> summary row
    built,                   \* rows the populate loop has completed
    module_globals,          \* the names compute_tick_values has assigned
    rank_call,               \* the arguments of the latest ranking call
    cmc_coins_sorted_by_price_change_truncated,  \* what that call returned
    printed                  \* the lines printed for that ranking

vars == <<pc, run_error, coin_count, tries_left, retry_delay, slept, cmc_chart_data,
          cmc_summary_data_df_indexed_id_list, cmc_summary_data_df_indexed, built,
          module_globals, rank_call, cmc_coins_sorted_by_price_change_truncated, printed>>

fetch_vars == <<coin_count, tries_left, retry_delay, slept, cmc_chart_data>>
table_vars == <<cmc_summary_data_df_indexed_id_list, cmc_summary_data_df_indexed, built, module_globals>>
rank_vars == <<rank_call, cmc_coins_sorted_by_price_change_truncated, printed>>

NoCall == [change_variable |-> "", number_of_coins |-> 0, coin_symbol_filter_list |-> {}]
EmptyDict == [c \in {} |-> 0]

Init ==
    /\ pc = "fetch"
    /\ run_error = ""
    /\ coin_count = 0
    /\ tries_left = 0
    /\ retry_delay = 0
    /\ slept = << >>
    /\ cmc_chart_data = EmptyDict
    /\ cmc_summary_data_df_indexed_id_list = << >>
    /\ cmc_summary_data_df_indexed = EmptyDict
    /\ built = 0
    /\ module_globals = EmptyDict
    /\ rank_call = NoCall
    /\ cmc_coins_sorted_by_price_change_truncated = << >>
    /\ printed = << >>

(***************************************************************************)
(* The download loop.                                                      *)
(***************************************************************************)
this_id == cmc_ranking_coin_id_list[coin_count]

\* the loop takes the next coin and calls retry_call(..., tries=4, delay=10, backoff=4)
StartFetch ==
    /\ pc = "fetch"
    /\ coin_count < Len(cmc_ranking_coin_id_list)
    /\ coin_count' = coin_count + 1
    /\ tries_left' = 4
    /\ retry_delay' = 10
    /\ slept' = << >>
    /\ pc' = "attempt"
    /\ UNCHANGED <<run_error, cmc_chart_data>>
    /\ UNCHANGED table_vars
    /\ UNCHANGED rank_vars

\* the call is over (returned or raised into the loop's except): its locals are gone
EndFetch ==
    /\ pc' = "fetch"
    /\ tries_left' = 0
    /\ retry_delay' = 0
    /\ slept' = << >>

\* get_df_chart_data returns a series: it is stored under the coin's id
FetchOk(series) ==
    /\ pc = "attempt"
    /\ cmc_chart_data' = [c \in DOMAIN cmc_chart_data \cup {this_id} |->
                             IF c = this_id THEN series ELSE cmc_chart_data[c]]
    /\ EndFetch
    /\ UNCHANGED <<run_error, coin_count>>
    /\ UNCHANGED table_vars
    /\ UNCHANGED rank_vars

\* a variant that re-raises one failure later
FetchRequestExceptionOneMore ==
    /\ pc = "attempt"
    /\ IF tries_left = 0
       THEN EndFetch
       ELSE /\ tries_left' = tries_left - 1
            /\ slept' = Append(slept, retry_delay)
            /\ retry_delay' = retry_delay * 4
            /\ pc' = "attempt"
    /\ UNCHANGED <<run_error, coin_count, cmc_chart_data>>
    /\ UNCHANGED table_vars
    /\ UNCHANGED rank_vars

\* requests.get raises a RequestException: retry_call waits and tries again,
\* or re-raises when the tries are used up
FetchRequestException ==
    /\ pc = "attempt"
    /\ IF tries_left - 1 = 0
       THEN EndFetch
       ELSE /\ tries_left' = tries_left - 1
            /\ slept' = Append(slept, retry_delay)
            /\ retry_delay' = retry_delay * 4
            /\ pc' = "attempt"
    /\ UNCHANGED <<run_error, coin_count, cmc_chart_data>>
    /\ UNCHANGED table_vars
    /\ UNCHANGED rank_vars

\* json.loads or DataFrame.from_dict raises: not a RequestException, so it is
\* not retried and reaches the loop's except at once
FetchParseError ==
    /\ pc = "attempt"
    /\ EndFetch
    /\ UNCHANGED <<run_error, coin_count, cmc_chart_data>>
    /\ UNCHANGED table_vars
    /\ UNCHANGED rank_vars

\* the loop is over
FetchDone ==
    /\ pc = "fetch"
    /\ coin_count = Len(cmc_ranking_coin_id_list)
    /\ pc' = "table"
    /\ UNCHANGED run_error
    /\ UNCHANGED fetch_vars
    /\ UNCHANGED table_vars
    /\ UNCHANGED rank_vars

(***************************************************************************)
(* The summary table.                                                      *)
(***************************************************************************)
\* list(cmc_chart_data): the keys in insertion order, which is the download order
DictKeys(d) == Keep(cmc_ranking_coin_id_list, DOMAIN d)

\* cmc_chart_data_list.remove('bitcoin') raises ValueError when bitcoin has no
\* series; otherwise the table gets bitcoin's row and one row per other key
CreateSummaryTable ==
    /\ pc = "table"
    /\ IF "bitcoin" \notin DOMAIN cmc_chart_data
       THEN /\ pc' = "aborted"
            /\ run_error' = "ValueError"
            /\ UNCHANGED table_vars
       ELSE LET cmc_chart_data_list == Remove(DictKeys(cmc_chart_data), "bitcoin")
                ids == <<"bitcoin">> \o cmc_chart_data_list
            IN  /\ cmc_summary_data_df_indexed_id_list' = ids
                /\ cmc_summary_data_df_indexed' = [c \in Range(ids) |-> cmc_summary_data_dict]
                /\ pc' = "build"
                /\ UNCHANGED <<run_error, built, module_globals>>
    /\ UNCHANGED fetch_vars
    /\ UNCHANGED rank_vars

this_coin_id == cmc_summary_data_df_indexed_id_list[built + 1]

\* one iteration of the populate loop; an exception of compute_tick_values ends the script
PopulateCoin ==
    /\ pc = "build"
    /\ built < Len(cmc_summary_data_df_indexed_id_list)
    /\ LET t == ComputeTickValues(cmc_chart_data[this_coin_id], module_globals)
       IN  /\ module_globals' = t.globals
           /\ IF t.raised # ""
              THEN /\ pc' = "aborted"
                   /\ run_error' = t.raised
                   /\ UNCHANGED <<cmc_summary_data_df_indexed, built>>
              ELSE /\ cmc_summary_data_df_indexed' =
                          [cmc_summary_data_df_indexed EXCEPT ![this_coin_id] =
                              PopulateRow(@, this_coin_id, cmc_chart_data[this_coin_id], t.globals)]
                   /\ built' = built + 1
                   /\ UNCHANGED <<pc, run_error>>
    /\ UNCHANGED cmc_summary_data_df_indexed_id_list
    /\ UNCHANGED fetch_vars
    /\ UNCHANGED rank_vars

\* the populate loop is over
PopulateDone ==
    /\ pc = "build"
    /\ built = Len(cmc_summary_data_df_indexed_id_list)
    /\ pc' = "report"
    /\ UNCHANGED run_error
    /\ UNCHANGED fetch_vars
    /\ UNCHANGED table_vars
    /\ UNCHANGED rank_vars

(***************************************************************************)
(* The reports: calls of create_cmc_coins_sorted_by_price_change_truncated *)
(***************************************************************************)
RankCoins(change_variable, number_of_coins, coin_symbol_filter_list) ==
    /\ pc = "report"
    /\ rank_call' = [change_variable |-> change_variable, number_of_coins |-> number_of_coins,
                     coin_symbol_filter_list |-> coin_symbol_filter_list]
    /\ cmc_coins_sorted_by_price_change_truncated' =
           CreateSortedTruncated(cmc_summary_data_df_indexed, cmc_summary_data_df_indexed_id_list,
                                 change_variable, number_of_coins, coin_symbol_filter_list)
    /\ pc' = "print"
    /\ UNCHANGED printed
    /\ UNCHANGED run_error
    /\ UNCHANGED fetch_vars
    /\ UNCHANGED table_vars

\* print_cmc_coins_sorted_by_price_change writes one line per coin of the ranking
PrintCoins ==
    /\ pc = "print"
    /\ printed' = PrintedLines(cmc_summary_data_df_indexed, rank_call.change_variable,
                               cmc_coins_sorted_by_price_change_truncated)
    /\ pc' = "printed"
    /\ UNCHANGED <<run_error, rank_call, cmc_coins_sorted_by_price_change_truncated>>
    /\ UNCHANGED fetch_vars
    /\ UNCHANGED table_vars

\* the print function returns; the script goes on to the next report
PrintReturn ==
    /\ pc = "printed"
    /\ pc' = "report"
    /\ rank_call' = NoCall
    /\ cmc_coins_sorted_by_price_change_truncated' = << >>
    /\ printed' = << >>
    /\ UNCHANGED run_error
    /\ UNCHANGED fetch_vars
    /\ UNCHANGED table_vars

Fetch == pc = "attempt" /\ \E series \in PipelineSeries(this_id) : FetchOk(series)

Rank == \E cv \in ChangeVariables, n \in 0 .. MaxCap, f \in SUBSET Symbols : RankCoins(cv, n, f)

Next ==
    \/ StartFetch
    \/ Fetch
    \/ FetchRequestException
    \/ FetchParseError
    \/ FetchDone
    \/ CreateSummaryTable
    \/ PopulateCoin
    \/ PopulateDone
    \/ Rank
    \/ PrintCoins
    \/ PrintReturn

Spec == Init /\ [][Next]_vars

(***************************************************************************)
(* The download loop alone, up to the creation of the table.  Every        *)
(* request has a timeout and the script has one thread, so a step that can *)
(* be taken is taken.                                                      *)
(***************************************************************************)
NextFetch ==
    \/ StartFetch
    \/ Fetch
    \/ FetchRequestException
    \/ FetchParseError
    \/ FetchDone

SpecFetch == Init /\ [][NextFetch]_vars /\ WF_vars(NextFetch)

(***************************************************************************)
(* The populate loop of one coin over every series of CoinSeries: the      *)
(* script right after the table was created, bitcoin and ethereum having   *)
(* been fetched and ripple's fetch having failed.                          *)
(***************************************************************************)
InitCoin ==
    /\ pc = "build"
    /\ run_error = ""
    /\ coin_count = Len(cmc_ranking_coin_id_list)
    /\ tries_left = 0
    /\ retry_delay = 0
    /\ slept = << >>
    /\ \E series \in CoinSeries :
          cmc_chart_data = [c \in {"bitcoin", "ethereum"} |-> IF c = "bitcoin" THEN BitcoinSeries ELSE series]
    /\ cmc_summary_data_df_indexed_id_list = <<"bitcoin", "ethereum">>
    /\ cmc_summary_data_df_indexed = [c \in {"bitcoin", "ethereum"} |-> cmc_summary_data_dict]
    /\ built = 0
    /\ module_globals = EmptyDict
    /\ rank_call = NoCall
    /\ cmc_coins_sorted_by_price_change_truncated = << >>
    /\ printed = << >>

NextCoin ==
    \/ PopulateCoin
    \/ PopulateDone

SpecCoin == InitCoin /\ [][NextCoin]_vars

(***************************************************************************)
(* The reports over a table of eight coins: the script right after the     *)
(* table was created from the eight-coin snapshot, every coin having been  *)
(* fetched, and the report of line 688, whose filter is the symbol column  *)
(* of the table and whose number_of_coins is 30.                           *)
(***************************************************************************)
InitReport ==
    /\ pc = "build"
    /\ run_error = ""
    /\ coin_count = Len(LongRankingCoinIdList)
    /\ tries_left = 0
    /\ retry_delay = 0
    /\ slept = << >>
    /\ \E chart \in [Range(LongRankingCoinIdList) \ {"bitcoin"} -> ReportSeries] :
          cmc_chart_data = [c \in Range(LongRankingCoinIdList) |-> IF c = "bitcoin" THEN BitcoinSeries ELSE chart[c]]
    /\ cmc_summary_data_df_indexed_id_list = LongRankingCoinIdList
    /\ cmc_summary_data_df_indexed = [c \in Range(LongRankingCoinIdList) |-> cmc_summary_data_dict]
    /\ built = 0
    /\ module_globals = EmptyDict
    /\ rank_call = NoCall
    /\ cmc_coins_sorted_by_price_change_truncated = << >>
    /\ printed = << >>

RankEveryCoin ==
    \E cv \in ChangeVariables :
        RankCoins(cv, 30, {cmc_summary_data_df_indexed[c]["symbol"] : c \in Range(cmc_summary_data_df_indexed_id_list)})

NextReport ==
    \/ PopulateCoin
    \/ PopulateDone
    \/ RankEveryCoin
    \/ PrintCoins
    \/ PrintReturn

SpecReport == InitReport /\ [][NextReport]_vars

(***************************************************************************)
(* What the specification says, stated on the state.                       *)
(***************************************************************************)
Ranked == rank_call.change_variable # ""
Metric(c) == cmc_summary_data_df_indexed[c][rank_call.change_variable]
RowIds == Range(cmc_summary_data_df_indexed_id_list)

\* the rows the populate loop has completed
BuiltIds == {cmc_summary_data_df_indexed_id_list[i] : i \in 1 .. built}
\* the populate loop raised while it was at coin c
AbortedIn(c) ==
    /\ pc = "aborted"
    /\ built < Len(cmc_summary_data_df_indexed_id_list)
    /\ cmc_summary_data_df_indexed_id_list[built + 1] = c
\* the script ended before the summary table existed
AbortedBeforeTable == pc = "aborted" /\ cmc_summary_data_df_indexed_id_list = << >>
\* the download loop is over and left no series for c
FetchFailed(c) == pc \notin {"fetch", "attempt"} /\ c \notin DOMAIN cmc_chart_data

SeriesLen(c) == Len(cmc_chart_data[c].price_btc)
Stamp(c, i) == At(cmc_chart_data[c].price_btc, i)[1]
PriceBtc(c, i) == At(cmc_chart_data[c].price_btc, i)[2]
PriceUsd(c, i) == At(cmc_chart_data[c].price_usd, i)[2]

\* the interval and the offsets as the specification gives them
SpecInterval(c) == Frac(Stamp(c, SeriesLen(c) - 2) - Stamp(c, 0), 1000 * (SeriesLen(c) - 2))
SpecDuration(w) ==
    CASE w = "hour" -> 3600
      [] w = "day" -> 86400
      [] w = "days_7" -> 604800
      [] w = "days_approx30" -> 2592000
SpecOffset(c, w) ==
    Round(Frac(SpecDuration(w) * SpecInterval(c)[2], SpecInterval(c)[1])) - (IF w = "days_approx30" THEN 5 ELSE 0)
SpecIndex(c, w) == SeriesLen(c) - 2 - SpecOffset(c, w)

\* the lookup of window w alone succeeds: the sample exists and neither price is 0
LookupSucceeds(c, w) ==
    /\ HasIndex(cmc_chart_data[c].price_btc, SpecIndex(c, w))
    /\ PriceBtc(c, SpecIndex(c, w)) # 0
    /\ PriceUsd(c, SpecIndex(c, w)) # 0

WindowUnavailable(c, w) == \A col \in WindowColumns(w) : IsNaN(cmc_summary_data_df_indexed[c][col])
WindowAvailable(c, w) ==
    /\ \A col \in WindowColumns(w) : ~IsNaN(cmc_summary_data_df_indexed[c][col])
    /\ cmc_summary_data_df_indexed[c][w \o "_ago_price_btc"] # Num(0)
    /\ cmc_summary_data_df_indexed[c][w \o "_ago_price_usd"] # Num(0)

\* the coin whose values module_globals holds after a completed iteration
LastBuilt == cmc_summary_data_df_indexed_id_list[built]
HasLastBuilt == pc \in {"build", "report", "print", "printed"} /\ built >= 1

\* C1: no coin of a returned ranking has an unavailable (NaN) value of the chosen metric
C1_RankingHasNoUnavailableMetric ==
    Ranked =>
        \A i \in 1 .. Len(cmc_coins_sorted_by_price_change_truncated) :
            ~IsNaN(Metric(cmc_coins_sorted_by_price_change_truncated[i]))

\* C2: the ranking's length is min(cap, number of non-reference coins whose symbol
\* is in the filter and whose chosen metric is available)
C2_RankingLength ==
    Ranked =>
        Len(cmc_coins_sorted_by_price_change_truncated) =
            Min(rank_call.number_of_coins,
                Cardinality({c \in RowIds \ {"bitcoin"} :
                                /\ cmc_summary_data_df_indexed[c]["symbol"] \in rank_call.coin_symbol_filter_list
                                /\ ~IsNaN(Metric(c))}))

\* C3: a coin whose series has fewer than 3 samples is skipped and nothing
\* else: the populate loop never ends the script at such a coin
C3_ShortSeriesSkipsCoinOnly ==
    \A c \in DOMAIN cmc_chart_data : SeriesLen(c) < 3 => ~AbortedIn(c)

\* C4: a coin whose series fetch failed for good is left out of the table
\* and the script goes on: it never ends for want of that coin's series
C4_FetchFailureNeverAborts ==
    \A c \in Range(cmc_ranking_coin_id_list) :
        FetchFailed(c) =>
            /\ ~AbortedBeforeTable
            /\ c \notin RowIds

\* C5: with 3 samples or more, a window whose index N-2-offset is negative
\* has its four fields unavailable, the populate loop does not raise at that
\* coin and the coin's row is filled
C5_NegativeIndexUnavailable ==
    \A c \in DOMAIN cmc_chart_data :
        SeriesLen(c) >= 3 =>
            /\ ~AbortedIn(c)
            /\ c \in BuiltIds =>
                  /\ cmc_summary_data_df_indexed[c]["symbol"] = cmc_ranking_data_indexed[c].symbol
                  /\ \A w \in Range(Windows) : SpecIndex(c, w) < 0 => WindowUnavailable(c, w)

C5_Witness ==
    \E w \in Range(Windows) :
        /\ "ethereum" \in BuiltIds
        /\ SpecIndex("ethereum", w) < 0
        /\ WindowUnavailable("ethereum", w)

\* C6: each window of a filled row is available exactly when its own lookup
\* succeeds, whatever happened to the other windows, and is unavailable otherwise
C6_WindowsIndependent ==
    \A c \in BuiltIds : \A w \in Range(Windows) :
        /\ WindowAvailable(c, w) <=> LookupSucceeds(c, w)
        /\ WindowUnavailable(c, w) <=> ~LookupSucceeds(c, w)

C6_Witness ==
    \E i, j \in 1 .. Len(Windows) :
        /\ i < j
        /\ "ethereum" \in BuiltIds
        /\ ~LookupSucceeds("ethereum", Windows[i])
        /\ WindowUnavailable("ethereum", Windows[i])
        /\ WindowAvailable("ethereum", Windows[j])

\* C7: each window of a filled row is all-or-nothing: its four fields are all
\* real values (a historical price is never 0) or all unavailable
C7_WindowAllOrNothing ==
    \A c \in BuiltIds : \A w \in Range(Windows) :
        WindowAvailable(c, w) \/ WindowUnavailable(c, w)

\* the try body wrote the bitcoin-quoted fields and then failed on a usd price of 0
C7_Witness ==
    \E w \in Range(Windows) :
        /\ "ethereum" \in BuiltIds
        /\ HasIndex(cmc_chart_data["ethereum"].price_btc, SpecIndex("ethereum", w))
        /\ PriceBtc("ethereum", SpecIndex("ethereum", w)) # 0
        /\ PriceUsd("ethereum", SpecIndex("ethereum", w)) = 0
        /\ WindowUnavailable("ethereum", w)

\* C8: in a ranking no coin with an unavailable metric stands ahead of a coin
\* with an available one
C8_UnavailableNeverAhead ==
    Ranked =>
        \A i, j \in 1 .. Len(cmc_coins_sorted_by_price_change_truncated) :
            i < j =>
                ~(/\ IsNaN(Metric(cmc_coins_sorted_by_price_change_truncated[i]))
                  /\ ~IsNaN(Metric(cmc_coins_sorted_by_price_change_truncated[j])))

\* the series of c with its final sample moved to the timestamp t
WithFinalStamp(chart, t) ==
    [col \in DOMAIN chart |->
        [i \in 1 .. Len(chart[col]) |-> IF i = Len(chart[col]) THEN <<t, chart[col][i][2]>> ELSE chart[col][i]]]

\* the series of c with one more sample, d ms after the final one
WithAppended(chart, d) ==
    [col \in DOMAIN chart |-> Append(chart[col], <<chart[col][Len(chart[col])][1] + d, chart[col][Len(chart[col])][2]>>)]

\* deltas of a final sample: a second, a quarter of an hour, five days
FinalDeltas == {1000, QuarterMs, FiveDaysMs}

TickNames == {"delta_tick", "hour_sample_count", "day_sample_count", "day_7_sample_count", "day_approx30_sample_count"}

\* C9: delta_tick is (timestamp[N-2] - timestamp[0]) / (N-2) in seconds, and
\* neither it nor the four offsets change with the final sample's timestamp
C9_IntervalIgnoresFinalSample ==
    HasLastBuilt =>
        /\ module_globals["delta_tick"] = SpecInterval(LastBuilt)
        /\ \A d \in FinalDeltas :
              LET moved == WithFinalStamp(cmc_chart_data[LastBuilt], Stamp(LastBuilt, SeriesLen(LastBuilt) - 2) + d)
                  g == ComputeTickValues(moved, EmptyDict).globals
              IN  \A name \in TickNames : g[name] = module_globals[name]

\* a series of 4 samples or more whose final sample does not keep the spacing
C9_Witness ==
    /\ HasLastBuilt
    /\ LastBuilt = "ethereum"
    /\ SeriesLen("ethereum") >= 4
    /\ Frac(Stamp("ethereum", SeriesLen("ethereum") - 1) - Stamp("ethereum", SeriesLen("ethereum") - 2), 1000)
          # module_globals["delta_tick"]
    /\ Stamp("ethereum", 1) - Stamp("ethereum", 0) # Stamp("ethereum", 2) - Stamp("ethereum", 1)

\* the final sample of c is one interval after the sample before it
FinalSampleOnTime(c) ==
    Frac(Stamp(c, SeriesLen(c) - 1) - Stamp(c, SeriesLen(c) - 2), 1000) = SpecInterval(c)

AppendedInterval(c, d) == ComputeTickValues(WithAppended(cmc_chart_data[c], d), EmptyDict).globals["delta_tick"]

\* C10: appending one more final sample, however far from the previous one,
\* leaves the interval of the series unchanged
C10_AppendKeepsInterval ==
    HasLastBuilt =>
        \A d \in FinalDeltas : AppendedInterval(LastBuilt, d) = module_globals["delta_tick"]

\* C10 (amended): the interval of the extended series is
\* (timestamp[N-1] - timestamp[0]) / (N-1) of the original one whatever the
\* appended sample's timestamp, and it is the original interval when the
\* original final sample is one interval after the sample before it
C10_AppendedSampleIgnored ==
    HasLastBuilt =>
        \A d \in FinalDeltas :
            /\ AppendedInterval(LastBuilt, d) =
                   Frac(Stamp(LastBuilt, SeriesLen(LastBuilt) - 1) - Stamp(LastBuilt, 0),
                        1000 * (SeriesLen(LastBuilt) - 1))
            /\ FinalSampleOnTime(LastBuilt) => AppendedInterval(LastBuilt, d) = module_globals["delta_tick"]

C10_Witness ==
    /\ HasLastBuilt
    /\ LastBuilt = "ethereum"
    /\ SeriesLen("ethereum") >= 4
    /\ FinalSampleOnTime("ethereum")
    /\ \A d \in FinalDeltas : AppendedInterval("ethereum", d) = module_globals["delta_tick"]

\* k is the integer nearest to d / x for a positive fraction x, the even one of a tie
IsRounded(k, d, x) ==
    LET diff == Abs(d * x[2] - k * x[1])
    IN  /\ 2 * diff <= x[1]
        /\ 2 * diff = x[1] => k % 2 = 0

\* the samples of c are a quarter of an hour apart
QuarterSpaced(c) ==
    /\ SeriesLen(c) >= 3
    /\ \A i \in 1 .. (SeriesLen(c) - 1) : Stamp(c, i) - Stamp(c, i - 1) = QuarterMs

\* C11: with the estimated interval I > 0, the four sample counts are round(3600 / I),
\* round(86400 / I), round(604800 / I) and round(2592000 / I) - 5; a series spaced
\* 900 s apart has interval 900 and an hour count of 4, and the hour-ago price of an
\* available hour window is the sample that many positions before index N-2
C11_OffsetsAsSpecified ==
    HasLastBuilt =>
        LET c == LastBuilt
            I == module_globals["delta_tick"]
            k == module_globals["hour_sample_count"]
        IN  /\ ~IsNaN(I) /\ I[1] > 0
            /\ IsRounded(module_globals["hour_sample_count"], 3600, I)
            /\ IsRounded(module_globals["day_sample_count"], 86400, I)
            /\ IsRounded(module_globals["day_7_sample_count"], 604800, I)
            /\ IsRounded(module_globals["day_approx30_sample_count"] + 5, 2592000, I)
            /\ QuarterSpaced(c) => I = Num(900) /\ k = 4
            /\ WindowAvailable(c, "hour") =>
                  /\ HasIndex(cmc_chart_data[c].price_btc, SeriesLen(c) - 2 - k)
                  /\ cmc_summary_data_df_indexed[c]["hour_ago_price_btc"] = Num(PriceBtc(c, SeriesLen(c) - 2 - k))
                  /\ cmc_summary_data_df_indexed[c]["hour_ago_price_usd"] = Num(PriceUsd(c, SeriesLen(c) - 2 - k))

\* the 50-sample series spaced 900 s apart is built with an available hour window
\* read 4 positions before index 48
C11_Witness ==
    /\ HasLastBuilt
    /\ LastBuilt = "ethereum"
    /\ SeriesLen("ethereum") = 50
    /\ QuarterSpaced("ethereum")
    /\ module_globals["delta_tick"] = Num(900)
    /\ module_globals["hour_sample_count"] = 4
    /\ WindowAvailable("ethereum", "hour")
    /\ cmc_summary_data_df_indexed["ethereum"]["hour_ago_price_btc"] = Num(PriceBtc("ethereum", 44))
    /\ PriceBtc("ethereum", 44) # PriceBtc("ethereum", 43)
    /\ PriceBtc("ethereum", 44) # PriceBtc("ethereum", 45)

\* c was fetched with exactly 50 samples 900 s apart, the one an hour before
\* sample 48 having non-zero prices
FiftySamples(c) ==
    /\ c \in DOMAIN cmc_chart_data
    /\ SeriesLen(c) = 50
    /\ QuarterSpaced(c)
    /\ PriceBtc(c, 44) # 0
    /\ PriceUsd(c, 44) # 0

\* the cap of the latest ranking call leaves room for every coin of the filter
CapPermits ==
    rank_call.number_of_coins >=
        Cardinality({d \in RowIds \ {"bitcoin"} :
                        cmc_summary_data_df_indexed[d]["symbol"] \in rank_call.coin_symbol_filter_list})

\* c is in the latest ranking if that ranking is by one of the metrics, has c's
\* symbol in its filter and a cap that permits
AppearsInRankingsBy(c, metrics) ==
    (/\ Ranked
     /\ rank_call.change_variable \in metrics
     /\ cmc_summary_data_df_indexed[c]["symbol"] \in rank_call.coin_symbol_filter_list
     /\ CapPermits)
        => c \in Range(cmc_coins_sorted_by_price_change_truncated)

\* C12 as stated: a coin with exactly 50 samples 900 s apart has its hour and day
\* windows available, its 7-day and 30-day windows unavailable, and is in the hour and
\* day rankings of any filter with its symbol, cap permitting
C12_FiftySamplesHourAndDay ==
    pc \in {"report", "print", "printed"} =>
        \A c \in RowIds \ {"bitcoin"} :
            FiftySamples(c) =>
                /\ WindowAvailable(c, "hour")
                /\ WindowAvailable(c, "day")
                /\ WindowUnavailable(c, "days_7")
                /\ WindowUnavailable(c, "days_approx30")
                /\ AppearsInRankingsBy(c, {"hour_change_btc", "day_change_btc"})

\* C12: a coin with exactly 50 samples 900 s apart has its hour window available, its
\* day, 7-day and 30-day windows unavailable, and is in the hour ranking of any filter
\* with its symbol, cap permitting
C12_FiftySamplesHourOnly ==
    pc \in {"report", "print", "printed"} =>
        \A c \in RowIds \ {"bitcoin"} :
            FiftySamples(c) =>
                /\ WindowAvailable(c, "hour")
                /\ WindowUnavailable(c, "day")
                /\ WindowUnavailable(c, "days_7")
                /\ WindowUnavailable(c, "days_approx30")
                /\ AppearsInRankingsBy(c, {"hour_change_btc"})

\* the 50-sample coin is ranked by the hour metric under a filter with its symbol
C12_Witness ==
    /\ pc = "print"
    /\ "ethereum" \in RowIds
    /\ FiftySamples("ethereum")
    /\ WindowAvailable("ethereum", "hour")
    /\ WindowUnavailable("ethereum", "day")
    /\ rank_call.change_variable = "hour_change_btc"
    /\ "ETH" \in rank_call.coin_symbol_filter_list
    /\ CapPermits
    /\ "ethereum" \in Range(cmc_coins_sorted_by_price_change_truncated)

\* C13: the current prices of a built row are the prices of sample N-2, never those of
\* sample N-1, and name, symbol, 24h volume and market capitalisation are the ranking
\* snapshot's values
C13_CurrentPriceAndSnapshotFields ==
    \A c \in BuiltIds :
        LET row == cmc_summary_data_df_indexed[c]
            n   == SeriesLen(c)
        IN  /\ row["price_btc"] = Num(PriceBtc(c, n - 2))
            /\ row["price_usd"] = Num(PriceUsd(c, n - 2))
            /\ PriceBtc(c, n - 1) # PriceBtc(c, n - 2) => row["price_btc"] # Num(PriceBtc(c, n - 1))
            /\ PriceUsd(c, n - 1) # PriceUsd(c, n - 2) => row["price_usd"] # Num(PriceUsd(c, n - 1))
            /\ row["name"] = cmc_ranking_data_indexed[c].name
            /\ row["symbol"] = cmc_ranking_data_indexed[c].symbol
            /\ row["24h_volume_usd"] = cmc_ranking_data_indexed[c].volume_24h
            /\ row["market_cap_usd"] = cmc_ranking_data_indexed[c].market_cap

\* a built row whose last two samples differ in price
C13_Witness ==
    /\ "ethereum" \in BuiltIds
    /\ PriceBtc("ethereum", SeriesLen("ethereum") - 1) # PriceBtc("ethereum", SeriesLen("ethereum") - 2)
    /\ cmc_summary_data_df_indexed["ethereum"]["price_btc"] = Num(PriceBtc("ethereum", SeriesLen("ethereum") - 2))
    /\ cmc_summary_data_df_indexed["ethereum"]["name"] = "Ethereum"
    /\ cmc_summary_data_df_indexed["ethereum"]["24h_volume_usd"] = "500.0"

\* the window whose bitcoin change ratio a ranking is by
WindowOf(change_variable) == CHOOSE w \in Range(Windows) : w \o "_change_btc" = change_variable

\* the sample window w of c resolves to exists and has positive prices
HistoricalSamplePositive(c, w) ==
    /\ HasIndex(cmc_chart_data[c].price_btc, SpecIndex(c, w))
    /\ PriceBtc(c, SpecIndex(c, w)) > 0
    /\ PriceUsd(c, SpecIndex(c, w)) > 0

\* C14: where the historical sample H > 0 of a window exists, the stored change ratio
\* is exactly C / H with C the price of sample N-2, and the percentage printed for it
\* is (C / H - 1) * 100
C14_RatioAndPercentage ==
    /\ \A c \in BuiltIds : \A w \in Range(Windows) :
          HistoricalSamplePositive(c, w) =>
              /\ cmc_summary_data_df_indexed[c][w \o "_change_btc"] =
                     Frac(PriceBtc(c, SeriesLen(c) - 2), PriceBtc(c, SpecIndex(c, w)))
              /\ cmc_summary_data_df_indexed[c][w \o "_change_usd"] =
                     Frac(PriceUsd(c, SeriesLen(c) - 2), PriceUsd(c, SpecIndex(c, w)))
    /\ pc = "printed" =>
          \A k \in 1 .. Len(printed) :
              LET c == cmc_coins_sorted_by_price_change_truncated[k]
                  w == WindowOf(rank_call.change_variable)
                  C == PriceBtc(c, SeriesLen(c) - 2)
                  H == PriceBtc(c, SpecIndex(c, w))
              IN  HistoricalSamplePositive(c, w) =>
                      printed[k].this_percentage = Frac((C - H) * 100, H)

\* a line was printed for a coin whose price moved against a positive historical price
C14_Witness ==
    /\ pc = "printed"
    /\ Len(printed) >= 1
    /\ LET c == cmc_coins_sorted_by_price_change_truncated[1]
           w == WindowOf(rank_call.change_variable)
       IN  /\ HistoricalSamplePositive(c, w)
           /\ PriceBtc(c, SeriesLen(c) - 2) # PriceBtc(c, SpecIndex(c, w))
           /\ cmc_summary_data_df_indexed[c][w \o "_change_btc"] # Num(1)
           /\ printed[1].this_percentage \in {Num(100), Num(0 - 50), Num(0 - 100)}

\* C15: bitcoin is in no ranking, whatever the filter, its own symbol included
C15_BitcoinNeverRanked ==
    Ranked => "bitcoin" \notin Range(cmc_coins_sorted_by_price_change_truncated)

\* a ranking whose filter has BTC and whose cap leaves room, bitcoin's metric being available
C15_Witness ==
    /\ Ranked
    /\ "BTC" \in rank_call.coin_symbol_filter_list
    /\ cmc_summary_data_df_indexed["bitcoin"]["symbol"] = "BTC"
    /\ ~IsNaN(cmc_summary_data_df_indexed["bitcoin"][rank_call.change_variable])
    /\ rank_call.number_of_coins > Len(cmc_coins_sorted_by_price_change_truncated)
    /\ "bitcoin" \notin Range(cmc_coins_sorted_by_price_change_truncated)

\* C16: a ranking is in descending order of the metric: metric(i) >= metric(j) for
\* every two positions i < j, also when some coins of the table lack the metric
C16_DescendingOrder ==
    Ranked =>
        \A i \in 1 .. Len(cmc_coins_sorted_by_price_change_truncated) :
            \A j \in (i + 1) .. Len(cmc_coins_sorted_by_price_change_truncated) :
                FGe(Metric(cmc_coins_sorted_by_price_change_truncated[i]),
                    Metric(cmc_coins_sorted_by_price_change_truncated[j]))

\* C17: every coin of a ranking has its symbol in the filter, a ranking has no more
\* entries than the cap, and no coin is in it twice
C17_FilteredCappedDistinct ==
    Ranked =>
        LET r == cmc_coins_sorted_by_price_change_truncated
        IN  /\ \A i \in 1 .. Len(r) :
                  cmc_summary_data_df_indexed[r[i]]["symbol"] \in rank_call.coin_symbol_filter_list
            /\ Len(r) <= rank_call.number_of_coins
            /\ \A i \in 1 .. Len(r) : \A j \in 1 .. Len(r) : r[i] = r[j] => i = j

\* a ranking cut at its cap, of a filter that has two coins of the table and not bitcoin
C17_Witness ==
    /\ Ranked
    /\ {"ethereum", "ripple"} \subseteq RowIds
    /\ rank_call.coin_symbol_filter_list = {"ETH", "XRP"}
    /\ rank_call.number_of_coins = 1
    /\ Len(cmc_coins_sorted_by_price_change_truncated) = 1

\* the row position of coin c in the table
RowPosition(c) == CHOOSE i \in 1 .. Len(cmc_summary_data_df_indexed_id_list) : cmc_summary_data_df_indexed_id_list[i] = c

\* C18: the sort is stable: two coins of a ranking whose metric values are exactly
\* equal stand in the order of their rows in the table
C18_StableSort ==
    Ranked =>
        LET r == cmc_coins_sorted_by_price_change_truncated
        IN  \A i \in 1 .. Len(r) : \A j \in (i + 1) .. Len(r) :
                (~IsNaN(Metric(r[i])) /\ Metric(r[i]) = Metric(r[j])) => RowPosition(r[i]) < RowPosition(r[j])

\* the waits between the attempts of one fetch
RetryWaits == <<10, 40, 160>>

\* during a fetch: at most 4 attempts, the waits so far being the first of 10, 40, 160 s
FetchBounded ==
    pc = "attempt" =>
        /\ tries_left \in 1 .. 4
        /\ slept = SubSeq(RetryWaits, 1, 4 - tries_left)

\* a step of the download loop: a fetch in progress is retried after the next wait, or
\* ends with the series stored, or ends with nothing stored and the loop going on; the
\* loop takes the next coin of the snapshot, or ends after the last one
FetchStep ==
    /\ pc = "attempt" =>
          /\ coin_count' = coin_count
          /\ run_error' = ""
          /\ \/ /\ pc' = "attempt"
                /\ tries_left' = tries_left - 1
                /\ slept' = Append(slept, RetryWaits[Len(slept) + 1])
                /\ cmc_chart_data' = cmc_chart_data
             \/ /\ pc' = "fetch"
                /\ DOMAIN cmc_chart_data' = DOMAIN cmc_chart_data \cup {this_id}
                /\ \A c \in DOMAIN cmc_chart_data \ {this_id} : cmc_chart_data'[c] = cmc_chart_data[c]
             \/ /\ pc' = "fetch"
                /\ cmc_chart_data' = cmc_chart_data
    /\ pc = "fetch" =>
          /\ cmc_chart_data' = cmc_chart_data
          /\ \/ /\ pc' = "attempt"
                /\ coin_count < Len(cmc_ranking_coin_id_list)
                /\ coin_count' = coin_count + 1
             \/ /\ pc' = "table"
                /\ coin_count = Len(cmc_ranking_coin_id_list)
                /\ coin_count' = coin_count

\* C19: a fetch is attempted at most 4 times, with waits of 10, 40 and 160 s before the
\* further attempts; it ends with the series stored or with one failure that the loop
\* catches, so that the loop goes on to the next coin and ends after visiting every
\* coin of the snapshot once
C19_FetchLoopTerminates ==
    /\ []FetchBounded
    /\ [][FetchStep]_vars
    /\ <>(pc = "table" /\ coin_count = Len(cmc_ranking_coin_id_list))

\* the fourth attempt of a fetch, after the waits of 10, 40 and 160 s, of the last coin
\* while an earlier coin's fetch had failed
C19_Witness ==
    /\ pc = "attempt"
    /\ tries_left = 1
    /\ slept = <<10, 40, 160>>
    /\ coin_count = Len(cmc_ranking_coin_id_list)
    /\ "ethereum" \notin DOMAIN cmc_chart_data
    /\ "bitcoin" \in DOMAIN cmc_chart_data

\* the sample window w of c resolves to exists and one of its two prices is 0
ZeroHistoricalPrice(c, w) ==
    /\ HasIndex(cmc_chart_data[c].price_btc, SpecIndex(c, w))
    /\ PriceBtc(c, SpecIndex(c, w)) = 0 \/ PriceUsd(c, SpecIndex(c, w)) = 0

\* C20: a historical price of exactly 0, in either unit, ends the script with no
\* division fault: the four fields of that window are unavailable, a historical price
\* already written included, the other windows of the row are built as their own
\* lookups allow, and the populate loop stops only at a coin whose series is too short
C20_ZeroPriceMarksWindowOnly ==
    /\ run_error # "ZeroDivisionError"
    /\ \A c \in RowIds : AbortedIn(c) => SeriesLen(c) < 3
    /\ \A c \in BuiltIds : \A w \in Range(Windows) :
          ZeroHistoricalPrice(c, w) =>
              /\ WindowUnavailable(c, w)
              /\ \A v \in Range(Windows) \ {w} : LookupSucceeds(c, v) => WindowAvailable(c, v)

\* a built row with a window whose historical bitcoin price is 0, written before the
\* division, and another window that is available
C20_Witness ==
    \E w \in Range(Windows) : \E v \in Range(Windows) \ {w} :
        /\ "ethereum" \in BuiltIds
        /\ HasIndex(cmc_chart_data["ethereum"].price_btc, SpecIndex("ethereum", w))
        /\ PriceBtc("ethereum", SpecIndex("ethereum", w)) = 0
        /\ IsNaN(cmc_summary_data_df_indexed["ethereum"][w \o "_ago_price_btc"])
        /\ WindowUnavailable("ethereum", w)
        /\ WindowAvailable("ethereum", v)
        /\ pc = "report"

\* C21: the historical sample of an available window lies at an index 0 .. N-3: it is
\* older than the current sample N-2 and is never the last sample N-1, so an offset of 0
\* or a negative 30-day offset gives no available window
C21_HistoricalSampleOlder ==
    \A c \in BuiltIds : \A w \in Range(Windows) :
        WindowAvailable(c, w) => SpecIndex(c, w) \in 0 .. (SeriesLen(c) - 3)

\* C22: after each iteration of the populate loop the module-level total_sample_count,
\* delta_tick and four sample counts are those of the coin just built, and every field
\* of a built row comes from that coin's own series, sample count and offsets, never
\* from those of a coin processed before it
C22_GlobalsOfCurrentCoin ==
    /\ HasLastBuilt =>
          /\ module_globals["total_sample_count"] = SeriesLen(LastBuilt)
          /\ module_globals["delta_tick"] = SpecInterval(LastBuilt)
          /\ \A w \in Range(Windows) : module_globals[WindowSampleCount(w)] = SpecOffset(LastBuilt, w)
    /\ \A c \in BuiltIds :
          LET row == cmc_summary_data_df_indexed[c]
          IN  /\ row["price_btc"] = Num(PriceBtc(c, SeriesLen(c) - 2))
              /\ row["price_usd"] = Num(PriceUsd(c, SeriesLen(c) - 2))
              /\ \A w \in Range(Windows) :
                    IF LookupSucceeds(c, w)
                    THEN /\ row[w \o "_ago_price_btc"] = Num(PriceBtc(c, SpecIndex(c, w)))
                         /\ row[w \o "_ago_price_usd"] = Num(PriceUsd(c, SpecIndex(c, w)))
                         /\ row[w \o "_change_btc"] = Frac(PriceBtc(c, SeriesLen(c) - 2), PriceBtc(c, SpecIndex(c, w)))
                         /\ row[w \o "_change_usd"] = Frac(PriceUsd(c, SeriesLen(c) - 2), PriceUsd(c, SpecIndex(c, w)))
                    ELSE WindowUnavailable(c, w)

\* ethereum was built after bitcoin with another sample count, interval and hour count,
\* and its hour window is available
C22_Witness ==
    /\ built = 2
    /\ LastBuilt = "ethereum"
    /\ SeriesLen("ethereum") # SeriesLen("bitcoin")
    /\ SpecInterval("ethereum") # SpecInterval("bitcoin")
    /\ SpecOffset("ethereum", "hour") # SpecOffset("bitcoin", "hour")
    /\ module_globals["total_sample_count"] = SeriesLen("ethereum")
    /\ module_globals["hour_sample_count"] = SpecOffset("ethereum", "hour")
    /\ LookupSucceeds("ethereum", "hour")
    /\ WindowAvailable("ethereum", "hour")

=============================================================================
